---- MODULE Spec2Model ----
(***************************************************************************)
(* Model of vtkLSDynaPartCollection (IO/vtkLSDynaPartCollection.cxx):      *)
(* the part directory, the run-length cell-to-part index, the insertion    *)
(* cursor, the cell streamers, the dead-cell pass and the point-property   *)
(* streamer.                                                               *)
(*                                                                         *)
(* A part object is identified by the slot it was constructed in; a        *)
(* pointer to a part is that slot number and the NULL pointer is NULL.     *)
(***************************************************************************)
EXTENDS Integers, Sequences, FiniteSets, TLC

\* ---------------------------------------------------------------- bounds
NumParts == 3         \* numMaterials handed to LSDynaPartStorage
MaxCells == 3         \* cells registered over all cell types
MaxPoint == 3         \* number of global points (numTuples)
MaxChunk == 2         \* largest chunk size tried for numPointsToRead
MaxWalks == 2         \* part walks begun by the callers

\* ------------------------------------------------------------ value sets
NULL == -1
Slots == 0 .. (NumParts - 1)

\* LSDynaMetaData::LSDYNA_TYPES, the values the source names
CellTypes == {"PARTICLE", "BEAM", "SHELL", "THICK_SHELL", "SOLID", "ROAD_SURFACE"}
\* the cell types the reader registers and streams in this model
RegTypes == {"SHELL", "SOLID"}
\* npts of the k-th cell of a cell type in the file read (k from 0): cells
\* of one and of two points alternate
PointsOfCell(k) == 1 + (k % 2)
\* numPropertiesInCell handed to FillCellArray, numComps of a point property
Components == {2}
\* MetaData->PartTypes of the collections the point-property streamer is run
\* on: all parts are shells, or the first one is a road surface
PointPartTypes ==
  {[s \in Slots |-> "SHELL"],
   [s \in Slots |-> IF s = 0 THEN "ROAD_SURFACE" ELSE "SHELL"]}
\* the global point id ranges [min, max) a part can report
PointRanges == {r \in (0 .. MaxPoint) \X (0 .. MaxPoint) : r[1] < r[2]}

VARIABLES
  phase,                   \* "register" | "allocate" | "insert": the reader's pass
  Parts,                   \* LSDynaPartStorage::Parts, slot -> TRUE when non-NULL
  partType,                \* vtkLSDynaPart::PartType() of the part of a slot
  minId,                   \* vtkLSDynaPart::GetMinGlobalPointId() per slot
  maxId,                   \* vtkLSDynaPart::GetMaxGlobalPointId() per slot
  Info,                    \* LSDynaPartStorage::Info, cell type -> blocks
  CellInsertionIterators,  \* LSDynaPartStorage::CellInsertionIterators
  regLog,                  \* history: the RegisterCell calls made, per type
  insertLog,               \* history: per InsertCell call, block read and part fed
  result,                  \* what the last query or streaming call did
  pt,                      \* the running ReadPointProperty<T> call
  allocated,               \* history: AllocateCellMemory calls per slot
  PartIterator,            \* LSDynaPartStorage::PartIterator (slot or NULL)
  PartIteratorLoc,         \* LSDynaPartStorage::PartIteratorLoc
  walks                    \* history: per part walk of a caller, what it got

vars == <<phase, Parts, partType, minId, maxId, Info, CellInsertionIterators,
          regLog, insertLog, result, pt, allocated, PartIterator,
          PartIteratorLoc, walks>>

cellVars == <<phase, Info, CellInsertionIterators, regLog, insertLog>>
partVars == <<Parts, partType, minId, maxId>>
iterVars == <<PartIterator, PartIteratorLoc, walks>>

\* ------------------------------------------------------------- helpers
\* number of cells a block list covers
RECURSIVE TotalCells(_)
TotalCells(blocks) ==
  IF blocks = <<>> THEN 0 ELSE Head(blocks).numCells + TotalCells(Tail(blocks))

NoResult == [op |-> "none"]
PtIdle == [pc |-> "idle"]

\* ------------------------------------------------- run-length blocks
\* struct PartInfo and its constructor
PartInfo(p, pId, start, npts) ==
  [numCells |-> 1, startId |-> start, cellStructureSize |-> npts,
   partId |-> pId, part |-> p]

\* the pointer this->Parts[matId]
PartPtr(parts, matId) == IF parts[matId] THEN matId ELSE NULL

\* mutant: a new block starts at the previous block's startId
RegisterCellBlocks_StartAtPrev(blocks, parts, matId, npts) ==
  IF Len(blocks) # 0
    THEN LET info == blocks[Len(blocks)] IN
         IF info.partId = matId
           THEN [blocks EXCEPT ![Len(blocks)] =
                   [info EXCEPT !.numCells = info.numCells + 1,
                                !.cellStructureSize = info.cellStructureSize + npts]]
           ELSE Append(blocks, PartInfo(PartPtr(parts, matId), matId,
                                        info.startId, npts))
    ELSE Append(blocks, PartInfo(PartPtr(parts, matId), matId, 0, npts))

\* LSDynaPartStorage::RegisterCell on the block list of one cell type
RegisterCellBlocks(blocks, parts, matId, npts) ==
  IF Len(blocks) # 0
    THEN LET info == blocks[Len(blocks)] IN
         IF info.partId = matId
           THEN [blocks EXCEPT ![Len(blocks)] =
                   [info EXCEPT !.numCells = info.numCells + 1,
                                !.cellStructureSize = info.cellStructureSize + npts]]
           ELSE Append(blocks, PartInfo(PartPtr(parts, matId), matId,
                                        info.startId + info.numCells, npts))
    ELSE Append(blocks, PartInfo(PartPtr(parts, matId), matId, 0, npts))

\* ------------------------------------------------- insertion cursor
\* PartInsertion(): pIt is a singular iterator (0); PartInsertion(pInfo): begin()
PartInsertionDefault == [pIt |-> 0, numCellsInserted |-> 0]
PartInsertion(blocks) == [pIt |-> 1, numCellsInserted |-> 0]

\* mutant: the count of cells inserted is not reset when the cursor rolls
inc_NoReset(c, blocks) ==
  LET n == c.numCellsInserted + 1 IN
  IF blocks[c.pIt].numCells = n
    THEN [pIt |-> c.pIt + 1, numCellsInserted |-> n]
    ELSE [pIt |-> c.pIt, numCellsInserted |-> n]

\* mutant: the cursor rolls to the next block one cell too late
inc_LateRoll(c, blocks) ==
  LET n == c.numCellsInserted + 1 IN
  IF blocks[c.pIt].numCells < n
    THEN [pIt |-> c.pIt + 1, numCellsInserted |-> 0]
    ELSE [pIt |-> c.pIt, numCellsInserted |-> n]

\* PartInsertion::inc
inc(c, blocks) ==
  LET n == c.numCellsInserted + 1 IN
  IF blocks[c.pIt].numCells = n
    THEN [pIt |-> c.pIt + 1, numCellsInserted |-> 0]
    ELSE [pIt |-> c.pIt, numCellsInserted |-> n]

\* every cell that was registered has been inserted
InsertionDone ==
  /\ phase = "insert"
  /\ \A t \in RegTypes : Len(insertLog[t]) = Len(regLog[t])

\* the reader is between calls: the insertion pass is over and no query or
\* streaming call has been observed yet
ReadyToRead == InsertionDone /\ result = NoResult

\* ------------------------------------------------- cell iteration
Max(a, b) == IF a > b THEN a ELSE b
Min(a, b) == IF a < b THEN a ELSE b

\* LSDynaPartStorage::InitCellIteration: the position of CellIterator after
\* the seek loop, started at `it` (begin() is 1, end() is Len + 1)
RECURSIVE SeekCellIterator(_, _, _)
SeekCellIterator(blocks, it, pos) ==
  IF pos > 0 /\ it # Len(blocks) + 1
    THEN LET rest == pos - blocks[it].numCells IN
         IF rest > 0 THEN SeekCellIterator(blocks, it + 1, rest)
                     ELSE SeekCellIterator(blocks, it, rest)
    ELSE it

\* mutant: the cursor is left on the first block whatever pos is
InitCellIteration_NoSeek(blocks, pos) == 1

InitCellIteration(blocks, pos) == SeekCellIterator(blocks, 1, pos)

\* mutant: the buffer position is advanced only for blocks with a part
RECURSIVE FillCellArrayLoop_SkipNull(_, _, _, _, _, _, _)
FillCellArrayLoop_SkipNull(blocks, it, startId, numCells, numPropertiesInCell, loc, calls) ==
  IF it = Len(blocks) + 1
    THEN [calls |-> calls, loc |-> loc, CellIterator |-> it]
    ELSE LET b == blocks[it]
             start == Max(b.startId, startId)
             end == Min(b.startId + b.numCells, startId + numCells)
             is == end - start
         IN  IF end < start
               THEN [calls |-> calls, loc |-> loc, CellIterator |-> it + 1]
               ELSE IF b.part # NULL
                 THEN FillCellArrayLoop_SkipNull(blocks, it + 1, startId, numCells,
                        numPropertiesInCell, loc + is * numPropertiesInCell,
                        Append(calls, [part |-> b.part, block |-> it,
                                       loc |-> loc, count |-> is]))
                 ELSE FillCellArrayLoop_SkipNull(blocks, it + 1, startId, numCells,
                        numPropertiesInCell, loc, calls)

\* the loop of vtkLSDynaPartCollection::FillCellArray from CellIterator `it`:
\* GetNextCellPart, the clipping, the break, ReadCellProperties, loc += ...
\* `calls` are the ReadCellProperties calls made, `loc` the buffer position
RECURSIVE FillCellArrayLoop(_, _, _, _, _, _, _)
FillCellArrayLoop(blocks, it, startId, numCells, numPropertiesInCell, loc, calls) ==
  IF it = Len(blocks) + 1
    THEN [calls |-> calls, loc |-> loc, CellIterator |-> it]
    ELSE LET b == blocks[it]
             start == Max(b.startId, startId)
             end == Min(b.startId + b.numCells, startId + numCells)
             is == end - start
         IN  IF end < start
               THEN [calls |-> calls, loc |-> loc, CellIterator |-> it + 1]
               ELSE FillCellArrayLoop(blocks, it + 1, startId, numCells,
                      numPropertiesInCell, loc + is * numPropertiesInCell,
                      IF b.part # NULL
                        THEN Append(calls, [part |-> b.part, block |-> it,
                                            loc |-> loc, count |-> is])
                        ELSE calls)

\* mutant: the buffer position is advanced only for blocks with a part
RECURSIVE FillCellUserIdArrayLoop_SkipNull(_, _, _, _, _, _)
FillCellUserIdArrayLoop_SkipNull(blocks, it, startId, numCells, loc, calls) ==
  IF it = Len(blocks) + 1
    THEN [calls |-> calls, loc |-> loc, CellIterator |-> it]
    ELSE LET b == blocks[it]
             start == Max(b.startId, startId)
             end == Min(b.startId + b.numCells, startId + numCells)
             is == end - start
         IN  IF end < start
               THEN [calls |-> calls, loc |-> loc, CellIterator |-> it + 1]
               ELSE IF b.part # NULL
                 THEN FillCellUserIdArrayLoop_SkipNull(blocks, it + 1, startId,
                        numCells, loc + is,
                        Append(calls, [part |-> b.part, block |-> it,
                                       loc |-> loc, count |-> is]))
                 ELSE FillCellUserIdArrayLoop_SkipNull(blocks, it + 1, startId,
                        numCells, loc, calls)

\* the loop of vtkLSDynaPartCollection::FillCellUserIdArray from CellIterator
\* `it`. A call [part, block, loc, count] is EnableCellUserIds on the part
\* followed by SetNextCellUserIds(loc[i]) for i = 0 .. count-1
RECURSIVE FillCellUserIdArrayLoop(_, _, _, _, _, _)
FillCellUserIdArrayLoop(blocks, it, startId, numCells, loc, calls) ==
  IF it = Len(blocks) + 1
    THEN [calls |-> calls, loc |-> loc, CellIterator |-> it]
    ELSE LET b == blocks[it]
             start == Max(b.startId, startId)
             end == Min(b.startId + b.numCells, startId + numCells)
             is == end - start
         IN  IF end < start
               THEN [calls |-> calls, loc |-> loc, CellIterator |-> it + 1]
               ELSE FillCellUserIdArrayLoop(blocks, it + 1, startId, numCells,
                      loc + is,
                      IF b.part # NULL
                        THEN Append(calls, [part |-> b.part, block |-> it,
                                            loc |-> loc, count |-> is])
                        ELSE calls)

\* vtkLSDynaPartCollection::FillCellUserId for one chunk buffer
FillCellUserId(blocks, startId, numCells) ==
  LET first == InitCellIteration(blocks, startId)
      r == FillCellUserIdArrayLoop(blocks, first, startId, numCells, 0, <<>>)
  IN  [startId |-> startId, numCells |-> numCells, first |-> first,
       calls |-> r.calls, loc |-> r.loc]

\* the chunk loop of vtkLSDynaPartCollection::ReadCellUserIds: one
\* FillCellUserId per chunk, startId += numCellsInChunk
RECURSIVE ReadCellUserIdsChunks(_, _, _)
ReadCellUserIdsChunks(blocks, chunkSizes, startId) ==
  IF chunkSizes = <<>>
    THEN <<>>
    ELSE <<FillCellUserId(blocks, startId, Head(chunkSizes))>>
         \o ReadCellUserIdsChunks(blocks, Tail(chunkSizes),
                                  startId + Head(chunkSizes))

\* the chunk sizes LSDynaFamily::GetNextChunk can return for
\* InitPartialChunkBuffering(n, 1): positive, adding up to n
RECURSIVE ChunkSizes(_)
ChunkSizes(n) ==
  IF n = 0
    THEN {<<>>}
    ELSE UNION {{<<k>> \o c : c \in ChunkSizes(n - k)} : k \in 1 .. n}

\* GetPartReadInfo taking the words after the window from the window's size
\* alone, without the words skipped before it
GetPartReadInfo_EndFromSize(MinId, MaxId, NumberOfCells) ==
  LET size == MaxId - MinId IN
  IF size <= 0
    THEN [numberOfCells |-> 0, numCellsToSkipStart |-> NumberOfCells,
          numCellsToSkipEnd |-> 0]
    ELSE [numberOfCells |-> size, numCellsToSkipStart |-> MinId,
          numCellsToSkipEnd |-> NumberOfCells - size]

\* vtkLSDynaPartCollection::GetPartReadInfo from MinIds, MaxIds and
\* MetaData->NumberOfCells of the type
GetPartReadInfo(MinId, MaxId, NumberOfCells) ==
  LET size == MaxId - MinId IN
  IF size <= 0
    THEN [numberOfCells |-> 0, numCellsToSkipStart |-> NumberOfCells,
          numCellsToSkipEnd |-> 0]
    ELSE [numberOfCells |-> size, numCellsToSkipStart |-> MinId,
          numCellsToSkipEnd |-> NumberOfCells - (size + MinId)]

\* mutant: the dead pointer is advanced only for blocks with a part
RECURSIVE SetCellDeadFlagsLoop_SkipNull(_, _, _, _)
SetCellDeadFlagsLoop_SkipNull(blocks, it, dead, calls) ==
  IF it = Len(blocks) + 1
    THEN [calls |-> calls, dead |-> dead, CellIterator |-> it]
    ELSE LET b == blocks[it] IN
         IF b.part # NULL
           THEN SetCellDeadFlagsLoop_SkipNull(blocks, it + 1, dead + b.numCells,
                  Append(calls, [part |-> b.part, block |-> it,
                                 dead |-> dead, count |-> b.numCells]))
           ELSE SetCellDeadFlagsLoop_SkipNull(blocks, it + 1, dead, calls)

\* the loop of vtkLSDynaPartCollection::SetCellDeadFlags: `calls` are the
\* SetCellsDeadState calls made, `dead` the offset of the dead pointer
RECURSIVE SetCellDeadFlagsLoop(_, _, _, _)
SetCellDeadFlagsLoop(blocks, it, dead, calls) ==
  IF it = Len(blocks) + 1
    THEN [calls |-> calls, dead |-> dead, CellIterator |-> it]
    ELSE LET b == blocks[it] IN
         SetCellDeadFlagsLoop(blocks, it + 1, dead + b.numCells,
           IF b.part # NULL
             THEN Append(calls, [part |-> b.part, block |-> it,
                                 dead |-> dead, count |-> b.numCells])
             ELSE calls)

\* mutant: the scan stops at the first block of the material
RECURSIVE GetMemorySizesForPart_FirstMatch(_, _)
GetMemorySizesForPart_FirstMatch(blocks, matId) ==
  IF blocks = <<>>
    THEN <<0, 0>>
    ELSE LET info == Head(blocks) IN
         IF info.partId = matId
           THEN <<info.numCells, info.cellStructureSize>>
           ELSE GetMemorySizesForPart_FirstMatch(Tail(blocks), matId)

\* LSDynaPartStorage::GetMemorySizesForPart: <<numCells, cellArrayLength>>
RECURSIVE GetMemorySizesForPart(_, _)
GetMemorySizesForPart(blocks, matId) ==
  IF blocks = <<>>
    THEN <<0, 0>>
    ELSE LET rest == GetMemorySizesForPart(Tail(blocks), matId)
             info == Head(blocks) IN
         IF info.partId = matId
           THEN <<rest[1] + info.numCells, rest[2] + info.cellStructureSize>>
           ELSE rest

\* ------------------------------------------------- part directory
\* MetaData->PartTypes of the slots in the cell passes
DefaultPartType(s) == IF s % 2 = 0 THEN "SHELL" ELSE "SOLID"

\* LSDynaPartStorage::PartExists. Parts[NumParts] lies behind the array: the
\* word read there is whatever follows the allocation, `beyond`
PartExists(parts, index, beyond) ==
  IF index < 0 \/ index > NumParts
    THEN [value |-> FALSE, read |-> NULL]
    ELSE [value |-> IF index \in Slots THEN parts[index] ELSE beyond,
          read |-> index]

\* vtkLSDynaPart::GetPartId: the index ConstructPart hands to InitPart, which
\* is the slot of the part
GetPartId(s) == s

\* mutant: the sizes are asked for the one-based material id
AllocatePartsCalls_OneBased(parts, types, info) ==
  [s \in Slots |->
     IF parts[s]
       THEN <<GetMemorySizesForPart(info[types[s]], GetPartId(s) + 1)>>
       ELSE <<>>]

\* LSDynaPartStorage::AllocateParts: the AllocateCellMemory(numCells,
\* cellLength) call each slot's part gets
AllocatePartsCalls(parts, types, info) ==
  [s \in Slots |->
     IF parts[s]
       THEN <<GetMemorySizesForPart(info[types[s]], GetPartId(s))>>
       ELSE <<>>]

\* vtkLSDynaPart::HasCells: the part was handed a cell by AddCell
HasCells(log, s) ==
  \E t \in CellTypes : \E k \in 1 .. Len(log[t]) : log[t][k].part = s

\* mutant: an empty part is deleted but its slot keeps the pointer
RECURSIVE FinalizeTopologyFrom_KeepSlot(_, _, _, _)
FinalizeTopologyFrom_KeepSlot(i, parts, log, built) ==
  IF i = NumParts
    THEN [Parts |-> parts, built |-> built]
    ELSE IF parts[i] /\ HasCells(log, i)
      THEN FinalizeTopologyFrom_KeepSlot(i + 1, parts, log, Append(built, i))
      ELSE FinalizeTopologyFrom_KeepSlot(i + 1, parts, log, built)

\* the loop of LSDynaPartStorage::FinalizeTopology from slot i: `built` are
\* the slots whose part got BuildToplogy
RECURSIVE FinalizeTopologyFrom(_, _, _, _)
FinalizeTopologyFrom(i, parts, log, built) ==
  IF i = NumParts
    THEN [Parts |-> parts, built |-> built]
    ELSE IF parts[i] /\ HasCells(log, i)
      THEN FinalizeTopologyFrom(i + 1, parts, log, Append(built, i))
      ELSE IF parts[i]
        THEN FinalizeTopologyFrom(i + 1, [parts EXCEPT ![i] = FALSE], log, built)
        ELSE FinalizeTopologyFrom(i + 1, parts, log, built)

\* ------------------------------------------------------------ initial state
\* InitCollection + BuildPartInfo: a part is constructed in every slot whose
\* PartStatus is on
Init ==
  /\ phase = "register"
  /\ Parts \in [Slots -> BOOLEAN]
  /\ partType = [s \in Slots |-> DefaultPartType(s)]
  /\ minId = [s \in Slots |-> 0]
  /\ maxId = [s \in Slots |-> 1]
  /\ Info = [t \in CellTypes |-> <<>>]
  /\ CellInsertionIterators = [t \in CellTypes |-> PartInsertionDefault]
  /\ regLog = [t \in CellTypes |-> <<>>]
  /\ insertLog = [t \in CellTypes |-> <<>>]
  /\ result = NoResult
  /\ pt = PtIdle
  /\ allocated = [s \in Slots |-> <<>>]
  /\ PartIterator = NULL
  /\ PartIteratorLoc = 0
  /\ walks = <<>>

\* ------------------------------------------------------------ actions
\* mutant: every registered cell opens a block of its own
RegisterCell_NoCoalesce ==
  /\ phase = "register"
  /\ TotalCells(Info["SHELL"]) + TotalCells(Info["SOLID"]) < MaxCells
  /\ \E t \in RegTypes, matId \in Slots :
       LET npts == PointsOfCell(Len(regLog[t])) IN
       /\ Info' = [Info EXCEPT ![t] =
                     Append(@, PartInfo(PartPtr(Parts, matId), matId,
                                        TotalCells(Info[t]), npts))]
       /\ regLog' = [regLog EXCEPT ![t] = Append(@, [matId |-> matId, npts |-> npts])]
  /\ UNCHANGED <<phase, CellInsertionIterators, insertLog, result, pt>>
  /\ UNCHANGED partVars
  /\ UNCHANGED <<allocated, iterVars>>

\* RegisterCell keeping one block list for all cell types
RegisterCell_SharedIndex ==
  /\ phase = "register"
  /\ TotalCells(Info["SHELL"]) + TotalCells(Info["SOLID"]) < MaxCells
  /\ \E t \in RegTypes, matId \in Slots :
       LET npts == PointsOfCell(Len(regLog[t])) IN
       /\ Info' = [Info EXCEPT !["SHELL"] =
                     RegisterCellBlocks(@, Parts, matId, npts)]
       /\ regLog' = [regLog EXCEPT ![t] = Append(@, [matId |-> matId, npts |-> npts])]
  /\ UNCHANGED <<phase, CellInsertionIterators, insertLog, result, pt>>
  /\ UNCHANGED partVars
  /\ UNCHANGED <<allocated, iterVars>>

\* vtkLSDynaPartCollection::RegisterCellIndexToPart -> RegisterCell
RegisterCell ==
  /\ phase = "register"
  /\ TotalCells(Info["SHELL"]) + TotalCells(Info["SOLID"]) < MaxCells
  /\ \E t \in RegTypes, matId \in Slots :
       LET npts == PointsOfCell(Len(regLog[t])) IN
       /\ Info' = [Info EXCEPT ![t] = RegisterCellBlocks(Info[t], Parts, matId, npts)]
       /\ regLog' = [regLog EXCEPT ![t] = Append(@, [matId |-> matId, npts |-> npts])]
  /\ UNCHANGED <<phase, CellInsertionIterators, insertLog, result, pt>>
  /\ UNCHANGED partVars
  /\ UNCHANGED <<allocated, iterVars>>

\* vtkLSDynaPartCollection::AllocateParts, called by the reader when every
\* cell is registered
AllocateParts ==
  /\ phase = "register"
  /\ phase' = "allocate"
  /\ allocated' = [s \in Slots |->
                     allocated[s] \o AllocatePartsCalls(Parts, partType, Info)[s]]
  /\ UNCHANGED <<Info, CellInsertionIterators, regLog, insertLog, result, pt>>
  /\ UNCHANGED partVars
  /\ UNCHANGED iterVars

\* LSDynaPartStorage::InitCellInsertion
InitCellInsertion ==
  /\ phase = "allocate"
  /\ phase' = "insert"
  /\ CellInsertionIterators' =
       [t \in CellTypes |-> IF Len(Info[t]) > 0 THEN PartInsertion(Info[t])
                                                ELSE CellInsertionIterators[t]]
  /\ UNCHANGED <<Info, regLog, insertLog, result, pt>>
  /\ UNCHANGED partVars
  /\ UNCHANGED <<allocated, iterVars>>

\* LSDynaPartStorage::InsertCell, called by the reader for the next cell of
\* the file: the cell carries the point count it was registered with.
\* Dereferencing pIt outside the block list is undefined: the part found
\* there and the outcome of inc() are arbitrary.
InsertCell ==
  /\ phase = "insert"
  /\ \E t \in RegTypes :
       LET c == CellInsertionIterators[t]
           blocks == Info[t]
           npts == regLog[t][Len(insertLog[t]) + 1].npts IN
       /\ Len(insertLog[t]) < Len(regLog[t])
       /\ IF c.pIt \in 1 .. Len(blocks)
            THEN /\ insertLog' = [insertLog EXCEPT ![t] =
                       Append(@, [block |-> c.pIt, part |-> blocks[c.pIt].part,
                                  npts |-> npts])]
                 /\ CellInsertionIterators' =
                       [CellInsertionIterators EXCEPT ![t] = inc(c, blocks)]
            ELSE \E p \in Slots \cup {NULL}, roll \in BOOLEAN :
                 /\ insertLog' = [insertLog EXCEPT ![t] =
                       Append(@, [block |-> c.pIt, part |-> p, npts |-> npts])]
                 /\ CellInsertionIterators' = [CellInsertionIterators EXCEPT ![t] =
                       IF roll THEN [pIt |-> c.pIt + 1, numCellsInserted |-> 0]
                               ELSE [pIt |-> c.pIt,
                                     numCellsInserted |-> c.numCellsInserted + 1]]
  /\ UNCHANGED <<phase, Info, regLog, result, pt>>
  /\ UNCHANGED partVars
  /\ UNCHANGED <<allocated, iterVars>>

\* LSDynaPartStorage::GetMemorySizesForPart, as AllocateParts calls it
GetMemorySizes ==
  /\ ReadyToRead
  /\ \E t \in RegTypes, matId \in Slots :
       LET r == GetMemorySizesForPart(Info[t], matId) IN
       result' = [op |-> "GetMemorySizesForPart", type |-> t, matId |-> matId,
                  numCells |-> r[1], cellArrayLength |-> r[2]]
  /\ UNCHANGED cellVars
  /\ UNCHANGED <<pt>>
  /\ UNCHANGED partVars
  /\ UNCHANGED <<allocated, iterVars>>

\* vtkLSDynaPartCollection::FillCellProperties -> FillCellArray, for a window
\* of the cells registered for the type
FillCellArray ==
  /\ ReadyToRead
  /\ \E t \in RegTypes, startId \in 0 .. MaxCells, numCells \in 0 .. MaxCells,
        numPropertiesInCell \in Components :
       /\ startId + numCells <= TotalCells(Info[t])
       /\ LET r == FillCellArrayLoop(Info[t], InitCellIteration(Info[t], startId),
                      startId, numCells, numPropertiesInCell, 0, <<>>) IN
          result' = [op |-> "FillCellArray", type |-> t, startId |-> startId,
                     numCells |-> numCells, comps |-> numPropertiesInCell,
                     first |-> InitCellIteration(Info[t], startId),
                     calls |-> r.calls, loc |-> r.loc,
                     CellIterator |-> r.CellIterator]
  /\ UNCHANGED cellVars
  /\ UNCHANGED <<pt>>
  /\ UNCHANGED partVars
  /\ UNCHANGED <<allocated, iterVars>>

\* vtkLSDynaPartCollection::MinIds: the first cell of the type that is mapped
MinIds(t) == IF t = "SOLID" THEN 1 ELSE 0

\* vtkLSDynaPartCollection::MaxIds: the reader registers the cells of
\* [MinIds, MaxIds)
MaxIds(t) == MinIds(t) + TotalCells(Info[t])

\* MetaData->NumberOfCells: the cells of the type in the file
NumberOfCells(t) == MaxIds(t) + (IF t = "SHELL" THEN 1 ELSE 0)

\* the words the chunk loop of ReadCellUserIds buffers: the loop runs only
\* when numCells > 0
RECURSIVE ChunkWords(_)
ChunkWords(chunkSizes) ==
  IF chunkSizes = <<>> THEN 0
  ELSE Head(chunkSizes) + ChunkWords(Tail(chunkSizes))

\* vtkLSDynaPartCollection::ReadCellUserIds (both word sizes run the same
\* loop) for a type whose MinIds, MaxIds and NumberOfCells are given: what
\* the call does. `words` are the words of the file section consumed
ReadCellUserIdsCall(t, status, MinId, MaxId, numCellsOfType, chunkSizes) ==
  LET info == GetPartReadInfo(MinId, MaxId, numCellsOfType)
      numCells == info.numberOfCells IN
  IF ~status
    THEN [op |-> "ReadCellUserIds", type |-> t, status |-> FALSE,
          MinIds |-> MinId, MaxIds |-> MaxId, NumberOfCells |-> numCellsOfType,
          info |-> info, numCells |-> numCells, chunks |-> <<>>,
          words |-> info.numCellsToSkipStart + numCells + info.numCellsToSkipEnd]
    ELSE [op |-> "ReadCellUserIds", type |-> t, status |-> TRUE,
          MinIds |-> MinId, MaxIds |-> MaxId, NumberOfCells |-> numCellsOfType,
          info |-> info, numCells |-> numCells,
          chunks |-> IF numCells > 0
                       THEN ReadCellUserIdsChunks(Info[t], chunkSizes, 0)
                       ELSE <<>>,
          words |-> info.numCellsToSkipStart
                    + (IF numCells > 0 THEN ChunkWords(chunkSizes) ELSE 0)
                    + info.numCellsToSkipEnd]

\* vtkLSDynaPartCollection::ReadCellUserIds in the user-id pass of the reader
ReadCellUserIds ==
  /\ ReadyToRead
  /\ \E t \in RegTypes, status \in BOOLEAN :
       LET numCells ==
             GetPartReadInfo(MinIds(t), MaxIds(t), NumberOfCells(t)).numberOfCells
       IN  \E chunkSizes \in IF status THEN ChunkSizes(numCells) ELSE {<<>>} :
             result' = ReadCellUserIdsCall(t, status, MinIds(t), MaxIds(t),
                                           NumberOfCells(t), chunkSizes)
  /\ UNCHANGED cellVars
  /\ UNCHANGED <<pt>>
  /\ UNCHANGED partVars
  /\ UNCHANGED <<allocated, iterVars>>

\* vtkLSDynaPartCollection::SetCellDeadFlags
SetCellDeadFlags ==
  /\ ReadyToRead
  /\ \E t \in RegTypes, death \in BOOLEAN :
       LET r == SetCellDeadFlagsLoop(Info[t], InitCellIteration(Info[t], 0), 0, <<>>) IN
       result' = IF ~death
                   THEN [op |-> "SetCellDeadFlags", type |-> t, death |-> FALSE,
                         calls |-> <<>>, dead |-> 0, CellIterator |-> NULL]
                   ELSE [op |-> "SetCellDeadFlags", type |-> t, death |-> TRUE,
                         calls |-> r.calls, dead |-> r.dead,
                         CellIterator |-> r.CellIterator]
  /\ UNCHANGED cellVars
  /\ UNCHANGED <<pt>>
  /\ UNCHANGED partVars
  /\ UNCHANGED <<allocated, iterVars>>

\* vtkLSDynaPartCollection::FinalizeTopology, called by the reader when the
\* connectivity has been read
FinalizeTopology ==
  /\ ReadyToRead
  /\ LET r == FinalizeTopologyFrom(0, Parts, insertLog, <<>>) IN
     /\ Parts' = r.Parts
     /\ result' = [op |-> "FinalizeTopology", before |-> Parts, built |-> r.built]
  /\ UNCHANGED cellVars
  /\ UNCHANGED <<pt, partType, minId, maxId>>
  /\ UNCHANGED <<allocated, iterVars>>

\* vtkLSDynaPartCollection::IsActivePart -> PartExists
IsActivePart ==
  /\ ReadyToRead
  /\ \E index \in -1 .. NumParts + 1, beyond \in BOOLEAN :
       LET r == PartExists(Parts, index, beyond) IN
       result' = [op |-> "PartExists", index |-> index,
                  value |-> r.value, read |-> r.read]
  /\ UNCHANGED cellVars
  /\ UNCHANGED <<pt>>
  /\ UNCHANGED partVars
  /\ UNCHANGED <<allocated, iterVars>>

Next ==
  \/ RegisterCell
  \/ AllocateParts
  \/ InitCellInsertion
  \/ InsertCell
  \/ GetMemorySizes
  \/ FillCellArray
  \/ SetCellDeadFlags
  \/ IsActivePart

Spec == Init /\ [][Next]_vars

\* the reader's passes followed by the user-id pass, a cell-property call or
\* FinalizeTopology
NextUserIds ==
  \/ RegisterCell
  \/ AllocateParts
  \/ InitCellInsertion
  \/ InsertCell
  \/ FillCellArray
  \/ ReadCellUserIds
  \/ FinalizeTopology

SpecUserIds == Init /\ [][NextUserIds]_vars

\* ------------------------------------------------ windows of a cell type
\* the words of a type's section before its window and after it, as
\* InitCollection receives them in mins, maxs and MetaData->NumberOfCells
SkipCounts == 0 .. 1

\* the MinIds, MaxIds and NumberOfCells InitCollection can hold for a type:
\* the registered cells are the window [MinIds, MaxIds) of the type's
\* section; a type without registered cells has an empty or inverted window
Windows(t) ==
  LET n == TotalCells(Info[t]) IN
  {w \in [MinIds : 0 .. 1, MaxIds : 0 .. n + 1, NumberOfCells : 0 .. n + 2] :
     /\ w.MinIds \in SkipCounts
     /\ w.NumberOfCells - Max(w.MinIds, w.MaxIds) \in SkipCounts
     /\ IF n > 0 THEN w.MaxIds = w.MinIds + n ELSE w.MaxIds <= w.MinIds}

\* the numChunks InitPartialChunkBuffering returns for a window
ChunkCounts == 1 .. 2

\* the chunk sizes of a window of n cells read in that many chunks
WindowChunkSizes(n) ==
  {c \in ChunkSizes(n) : n > 0 => Len(c) \in ChunkCounts}

\* vtkLSDynaPartCollection::ReadCellUserIds in the user-id pass, for any
\* window InitCollection was given
ReadCellUserIdsOfWindow ==
  /\ ReadyToRead
  /\ \E t \in RegTypes, status \in BOOLEAN :
       \E w \in Windows(t) :
         LET numCells ==
               GetPartReadInfo(w.MinIds, w.MaxIds, w.NumberOfCells).numberOfCells
         IN  \E chunkSizes \in IF status THEN WindowChunkSizes(numCells)
                                           ELSE {<<>>} :
               result' = ReadCellUserIdsCall(t, status, w.MinIds, w.MaxIds,
                                             w.NumberOfCells, chunkSizes)
  /\ UNCHANGED cellVars
  /\ UNCHANGED <<pt>>
  /\ UNCHANGED partVars
  /\ UNCHANGED <<allocated, iterVars>>

\* the reader's passes followed by the user-id pass over any window
NextReadInfo ==
  \/ RegisterCell
  \/ AllocateParts
  \/ InitCellInsertion
  \/ InsertCell
  \/ ReadCellUserIdsOfWindow

SpecReadInfo == Init /\ [][NextReadInfo]_vars

\* ================================================== calls out of contract
\* RegisterCell with a material index outside the slots. Parts[matId] is read
\* behind or before the array, so the block's part pointer is whatever lies
\* there. What the program does afterwards is not followed.
RegisterCellOutOfRange ==
  /\ phase = "register"
  /\ TotalCells(Info["SHELL"]) + TotalCells(Info["SOLID"]) < MaxCells
  /\ \E t \in RegTypes, matId \in {-1, NumParts}, p \in Slots \cup {NULL} :
       LET npts == PointsOfCell(Len(regLog[t])) IN
       /\ Info' = [Info EXCEPT ![t] =
                     Append(@, PartInfo(p, matId, TotalCells(Info[t]), npts))]
       /\ regLog' = [regLog EXCEPT ![t] = Append(@, [matId |-> matId, npts |-> npts])]
       /\ result' = [op |-> "RegisterCell", type |-> t, slotRead |-> matId,
                      blockRead |-> NULL, fed |-> NULL]
  /\ phase' = "undefined"
  /\ UNCHANGED <<CellInsertionIterators, insertLog, pt>>
  /\ UNCHANGED partVars
  /\ UNCHANGED <<allocated, iterVars>>

\* InsertCell for a type whose cells are all inserted, or that has none: pIt
\* is end() or singular, so the part read through it and the outcome of
\* inc() are arbitrary. What the program does afterwards is not followed.
InsertCellExhausted ==
  /\ phase = "insert"
  /\ \E t \in RegTypes, p \in Slots \cup {NULL}, roll \in BOOLEAN :
       LET c == CellInsertionIterators[t]
           npts == PointsOfCell(Len(insertLog[t])) IN
       /\ Len(insertLog[t]) = Len(regLog[t])
       /\ insertLog' = [insertLog EXCEPT ![t] =
             Append(@, [block |-> c.pIt, part |-> p, npts |-> npts])]
       /\ CellInsertionIterators' = [CellInsertionIterators EXCEPT ![t] =
             IF roll THEN [pIt |-> c.pIt + 1, numCellsInserted |-> 0]
                     ELSE [pIt |-> c.pIt,
                           numCellsInserted |-> c.numCellsInserted + 1]]
       /\ result' = [op |-> "InsertCell", type |-> t, slotRead |-> NULL,
                      blockRead |-> c.pIt, fed |-> p]
  /\ phase' = "undefined"
  /\ UNCHANGED <<Info, regLog, pt>>
  /\ UNCHANGED partVars
  /\ UNCHANGED <<allocated, iterVars>>

NextMisuse ==
  \/ RegisterCell
  \/ AllocateParts
  \/ InitCellInsertion
  \/ InsertCell
  \/ RegisterCellOutOfRange
  \/ InsertCellExhausted

SpecMisuse == Init /\ [][NextMisuse]_vars

\* ================================================ point-property streamer
\* InitPartIteration + the GetNextPart loop: the slots that hold a part of
\* the type, in slot order, from slot `i` on
RECURSIVE PartsOfTypeFrom(_, _)
PartsOfTypeFrom(t, i) ==
  IF i >= NumParts THEN <<>>
  ELSE IF Parts[i] /\ partType[i] = t
    THEN <<i>> \o PartsOfTypeFrom(t, i + 1)
    ELSE PartsOfTypeFrom(t, i + 1)

PartsOfType(t) == PartsOfTypeFrom(t, 0)

\* validCellTypes of ReadPointProperty
validCellTypes == <<"PARTICLE", "BEAM", "SHELL", "THICK_SHELL", "SOLID">>

\* validParts as ReadPointProperty collects them
RECURSIVE CollectFrom(_)
CollectFrom(i) ==
  IF i > Len(validCellTypes) THEN <<>>
  ELSE PartsOfType(validCellTypes[i]) \o CollectFrom(i + 1)

validParts(isRoadPoints) ==
  IF ~isRoadPoints THEN CollectFrom(1) ELSE PartsOfType("ROAD_SURFACE")

\* sortPartsOnGlobalIds(p1, p2)
sortPartsOnGlobalIds(p1, p2) ==
  IF minId[p1] < minId[p2] THEN TRUE
  ELSE IF maxId[p1] < maxId[p2] THEN TRUE
  ELSE FALSE

\* std::list::merge with the comparator: `new` is merged into `old`, an
\* element of `new` goes first only when it compares less than the head of `old`
RECURSIVE Merge(_, _)
Merge(old, new) ==
  IF old = <<>> THEN new
  ELSE IF new = <<>> THEN old
  ELSE IF sortPartsOnGlobalIds(Head(new), Head(old))
    THEN <<Head(new)>> \o Merge(old, Tail(new))
    ELSE <<Head(old)>> \o Merge(Tail(old), new)

\* sortedParts.sort(sortPartsOnGlobalIds): std::list::sort is a stable merge
\* sort; where it cuts the list is the library's choice. With a comparator
\* that is no strict weak ordering the outcome depends on the cuts, so the
\* sort yields a set of possible outcomes.
RECURSIVE SortOutcomes(_)
SortOutcomes(s) ==
  IF Len(s) <= 1 THEN {s}
  ELSE UNION {
         {Merge(a, b) : a \in SortOutcomes(SubSeq(s, 1, k)),
                        b \in SortOutcomes(SubSeq(s, k + 1, Len(s)))}
         : k \in 1 .. Len(s) - 1}

\* mutant: parts are dropped from the working set on their minimum id
RECURSIVE EvictFront_OnMin(_, _)
EvictFront_OnMin(sorted, offset) ==
  IF sorted # <<>> /\ minId[Head(sorted)] < offset
    THEN EvictFront_OnMin(Tail(sorted), offset)
    ELSE sorted

\* the first while loop of a chunk iteration: pop_front while the front
\* part's maximum id lies before the chunk
RECURSIVE EvictFront(_, _)
EvictFront(sorted, offset) ==
  IF sorted # <<>> /\ maxId[Head(sorted)] < offset
    THEN EvictFront(Tail(sorted), offset)
    ELSE sorted

\* the second while loop: the parts fed with the chunk, from the front up to
\* the first part whose minimum id lies behind the chunk
RECURSIVE FedParts(_, _)
FedParts(sorted, chunkEnd) ==
  IF sorted # <<>> /\ minId[Head(sorted)] < chunkEnd
    THEN <<Head(sorted)>> \o FedParts(Tail(sorted), chunkEnd)
    ELSE <<>>

\* the ReadPointBasedProperty calls of one chunk
ChunkCalls(fed, offset, count) ==
  [i \in 1 .. Len(fed) |-> [part |-> fed[i], offset |-> offset, count |-> count]]

SeqRange(s) == {s[i] : i \in 1 .. Len(s)}

\* InitCollection for a collection whose topology has been read: every part
\* of the directory owns one cell of its own type and reports a point range
TopologyOf(t) ==
  LET ps == PartsOfType(t) IN
  [blocks |-> [i \in 1 .. Len(ps) |->
                 [numCells |-> 1, startId |-> i - 1,
                  cellStructureSize |-> PointsOfCell(i - 1),
                  partId |-> ps[i], part |-> ps[i]]],
   reg |-> [i \in 1 .. Len(ps) |-> [matId |-> ps[i], npts |-> PointsOfCell(i - 1)]],
   ins |-> [i \in 1 .. Len(ps) |->
              [block |-> i, part |-> ps[i], npts |-> PointsOfCell(i - 1)]],
   cursor |-> IF Len(ps) > 0 THEN [pIt |-> Len(ps) + 1, numCellsInserted |-> 0]
                             ELSE PartInsertionDefault]

InitPoint ==
  /\ phase = "insert"
  /\ Parts \in [Slots -> BOOLEAN]
  /\ partType \in PointPartTypes
  /\ \E r \in [Slots -> PointRanges] :
       /\ minId = [s \in Slots |-> r[s][1]]
       /\ maxId = [s \in Slots |-> r[s][2]]
  /\ \A s \in Slots : ~Parts[s] => (minId[s] = 0 /\ maxId[s] = 1)
  /\ Info = [t \in CellTypes |-> TopologyOf(t).blocks]
  /\ CellInsertionIterators = [t \in CellTypes |-> TopologyOf(t).cursor]
  /\ regLog = [t \in CellTypes |-> TopologyOf(t).reg]
  /\ insertLog = [t \in CellTypes |-> TopologyOf(t).ins]
  /\ result = NoResult
  /\ pt = PtIdle
  /\ allocated = [s \in Slots |-> <<>>]
  /\ PartIterator = NULL
  /\ PartIteratorLoc = 0
  /\ walks = <<>>

\* ReadPointProperty for an array that was not requested: all words skipped
ReadPointPropertySkip ==
  /\ pt.pc = "idle"
  /\ \E numComps \in Components :
       pt' = [pc |-> "skipped", numComps |-> numComps, words |-> MaxPoint * numComps]
  /\ UNCHANGED cellVars
  /\ UNCHANGED <<result>>
  /\ UNCHANGED partVars
  /\ UNCHANGED <<allocated, iterVars>>

\* ReadPointProperty with no part of the wanted cell types: front() and
\* back() of the empty list are undefined, so the span and with it the words
\* consumed are whatever the read behind the list head gives (a crash leaves
\* the position at any of them)
ReadPointPropertyNoParts ==
  /\ pt.pc = "idle"
  /\ \E isRoadPoints \in BOOLEAN, numComps \in Components :
       /\ validParts(isRoadPoints) = <<>>
       /\ \E words \in 0 .. MaxPoint * numComps :
            pt' = [pc |-> "undefined", numComps |-> numComps,
                   isRoadPoints |-> isRoadPoints, words |-> words]
  /\ UNCHANGED cellVars
  /\ UNCHANGED <<result>>
  /\ UNCHANGED partVars
  /\ UNCHANGED <<allocated, iterVars>>

\* ReadPointProperty up to the chunk loop: collect, sort, compute the span,
\* skip the words before it. numPointsToRead is the chunk size (1048576 in
\* the source, scaled down here)
ReadPointPropertyStart ==
  /\ pt.pc = "idle"
  /\ \E isRoadPoints \in BOOLEAN, numComps \in Components,
        numPointsToRead \in 1 .. MaxChunk :
       LET parts == validParts(isRoadPoints) IN
       /\ parts # <<>>
       /\ \E sortedParts \in SortOutcomes(parts) :
            LET minGlobalPoint == minId[sortedParts[1]]
                maxGlobalPoint == maxId[sortedParts[Len(sortedParts)]]
                realNumberOfTuples == maxGlobalPoint - minGlobalPoint
            IN  pt' = [pc |-> "loop", isRoadPoints |-> isRoadPoints,
                       numComps |-> numComps, numPointsToRead |-> numPointsToRead,
                       parts |-> parts, sortedParts |-> sortedParts,
                       minGlobalPoint |-> minGlobalPoint,
                       maxGlobalPoint |-> maxGlobalPoint,
                       numPointsToSkipEnd |-> MaxPoint - (realNumberOfTuples + minGlobalPoint),
                       offset |-> minGlobalPoint, j |-> 0,
                       loopTimes |-> realNumberOfTuples \div numPointsToRead,
                       leftOver |-> realNumberOfTuples % numPointsToRead,
                       words |-> minGlobalPoint * numComps,
                       chunks |-> <<>>, calls |-> <<>>]
  /\ UNCHANGED cellVars
  /\ UNCHANGED <<result>>
  /\ UNCHANGED partVars
  /\ UNCHANGED <<allocated, iterVars>>

\* one iteration of the chunk loop
ReadPointPropertyChunk ==
  /\ pt.pc = "loop"
  /\ pt.j < pt.loopTimes
  /\ LET kept == EvictFront(pt.sortedParts, pt.offset)
         fed == FedParts(kept, pt.offset + pt.numPointsToRead)
     IN  pt' = [pt EXCEPT
                  !.sortedParts = kept,
                  !.chunks = Append(@, [offset |-> pt.offset, count |-> pt.numPointsToRead]),
                  !.calls = @ \o ChunkCalls(fed, pt.offset, pt.numPointsToRead),
                  !.words = @ + pt.numPointsToRead * pt.numComps,
                  !.offset = @ + pt.numPointsToRead,
                  !.j = @ + 1]
  /\ UNCHANGED cellVars
  /\ UNCHANGED <<result>>
  /\ UNCHANGED partVars
  /\ UNCHANGED <<allocated, iterVars>>

\* the final partial chunk and the skip of the words behind the span
ReadPointPropertyLeftOver ==
  /\ pt.pc = "loop"
  /\ pt.j >= pt.loopTimes
  /\ pt' = [pt EXCEPT
               !.pc = "done",
               !.chunks = Append(@, [offset |-> pt.offset, count |-> pt.leftOver]),
               !.calls = @ \o ChunkCalls(pt.sortedParts, pt.offset, pt.leftOver),
               !.words = @ + pt.leftOver * pt.numComps
                           + pt.numPointsToSkipEnd * pt.numComps]
  /\ UNCHANGED cellVars
  /\ UNCHANGED <<result>>
  /\ UNCHANGED partVars
  /\ UNCHANGED <<allocated, iterVars>>

NextPoint ==
  \/ ReadPointPropertySkip
  \/ ReadPointPropertyNoParts
  \/ ReadPointPropertyStart
  \/ ReadPointPropertyChunk
  \/ ReadPointPropertyLeftOver

SpecPoint == InitPoint /\ [][NextPoint]_vars

\* ================================================== part iteration
\* mutant: the scan takes the next slot that holds a part of any type
RECURSIVE FindPart_AnyType(_, _, _, _)
FindPart_AnyType(parts, types, t, i) ==
  IF i >= NumParts THEN NULL
  ELSE IF parts[i] THEN i
  ELSE FindPart_AnyType(parts, types, t, i + 1)

\* the scan loops of InitPartIteration and GetNextPart: the first slot from
\* `i` on that holds a part whose PartType() is t, NULL (Loc -1) when none
RECURSIVE FindPart(_, _, _, _)
FindPart(parts, types, t, i) ==
  IF i >= NumParts THEN NULL
  ELSE IF parts[i] /\ types[i] = t THEN i
  ELSE FindPart(parts, types, t, i + 1)

\* mutant: a cursor that still stands on a part is not restarted
InitPartIterationAt_KeepCursor(parts, types, t, it, loc) ==
  IF it # NULL
    THEN [PartIterator |-> it, PartIteratorLoc |-> loc]
    ELSE [PartIterator |-> FindPart(parts, types, t, 0),
          PartIteratorLoc |-> FindPart(parts, types, t, 0)]

\* LSDynaPartStorage::InitPartIteration: the cursor it leaves, whatever the
\* cursor (it, loc) was
InitPartIterationAt(parts, types, t, it, loc) ==
  [PartIterator |-> FindPart(parts, types, t, 0),
   PartIteratorLoc |-> FindPart(parts, types, t, 0)]

\* LSDynaPartStorage::GetNextPart at cursor (it, loc): the part and the
\* value returned, and the cursor it leaves
GetNextPartAt(parts, types, it, loc) ==
  IF it = NULL
    THEN [part |-> NULL, more |-> FALSE,
          PartIterator |-> it, PartIteratorLoc |-> loc]
    ELSE [part |-> it, more |-> TRUE,
          PartIterator |-> FindPart(parts, types, types[it], loc + 1),
          PartIteratorLoc |-> FindPart(parts, types, types[it], loc + 1)]

\* the collection after InitCollection, for the walks over the parts
InitIter ==
  /\ phase = "register"
  /\ Parts \in [Slots -> BOOLEAN]
  /\ partType \in [Slots -> RegTypes]
  /\ \A s \in Slots : ~Parts[s] => partType[s] = DefaultPartType(s)
  /\ minId = [s \in Slots |-> 0]
  /\ maxId = [s \in Slots |-> 1]
  /\ Info = [t \in CellTypes |-> <<>>]
  /\ CellInsertionIterators = [t \in CellTypes |-> PartInsertionDefault]
  /\ regLog = [t \in CellTypes |-> <<>>]
  /\ insertLog = [t \in CellTypes |-> <<>>]
  /\ result = NoResult
  /\ pt = PtIdle
  /\ allocated = [s \in Slots |-> <<>>]
  /\ PartIterator = NULL
  /\ PartIteratorLoc = 0
  /\ walks = <<>>

\* a caller begins a walk over the parts of a type: InitPartIteration.
\* `got` are the parts the caller's GetNextPart calls returned, `served`
\* the parts any caller was returned while this walk was the last begun,
\* `alone` says that no other caller touched the cursor during the walk
InitPartIteration ==
  /\ Len(walks) < MaxWalks
  /\ \E t \in RegTypes :
       LET r == InitPartIterationAt(Parts, partType, t, PartIterator,
                                    PartIteratorLoc) IN
       /\ PartIterator' = r.PartIterator
       /\ PartIteratorLoc' = r.PartIteratorLoc
       /\ walks' = Append([w \in 1 .. Len(walks) |->
                             IF walks[w].more
                               THEN [walks[w] EXCEPT !.alone = FALSE]
                               ELSE walks[w]],
                          [type |-> t, got |-> <<>>, served |-> <<>>,
                           more |-> TRUE, last |-> NULL, alone |-> TRUE])
  /\ UNCHANGED cellVars
  /\ UNCHANGED partVars
  /\ UNCHANGED <<result, pt, allocated>>

\* the caller of walk w asks for the next part: GetNextPart, until it
\* returns false
GetNextPart ==
  /\ \E w \in 1 .. Len(walks) :
       LET r == GetNextPartAt(Parts, partType, PartIterator, PartIteratorLoc)
           n == Len(walks) IN
       /\ walks[w].more
       /\ PartIterator' = r.PartIterator
       /\ PartIteratorLoc' = r.PartIteratorLoc
       /\ walks' = [v \in 1 .. n |->
                      LET a == IF v = w
                                 THEN [walks[v] EXCEPT
                                         !.got = IF r.more THEN Append(@, r.part)
                                                           ELSE @,
                                         !.more = r.more, !.last = r.part]
                                 ELSE IF walks[v].more
                                   THEN [walks[v] EXCEPT !.alone = FALSE]
                                   ELSE walks[v]
                      IN  IF v = n /\ r.more
                            THEN [a EXCEPT !.served = Append(@, r.part)]
                            ELSE a]
  /\ UNCHANGED cellVars
  /\ UNCHANGED partVars
  /\ UNCHANGED <<result, pt, allocated>>

NextIter ==
  \/ InitPartIteration
  \/ GetNextPart

SpecIter == InitIter /\ [][NextIter]_vars

\* ======================================================== properties
\* the RegisterCell calls of type t made with material m
RegisteredWith(t, m) == {k \in 1 .. Len(regLog[t]) : regLog[t][k].matId = m}

RECURSIVE SumNpts(_, _)
SumNpts(log, ks) ==
  IF ks = {} THEN 0
  ELSE LET k == CHOOSE x \in ks : TRUE IN log[k].npts + SumNpts(log, ks \ {k})

\* the block of a list that holds global cell id `cell`
BlockHolding(blocks, cell) ==
  {i \in 1 .. Len(blocks) :
     blocks[i].startId <= cell /\ cell < blocks[i].startId + blocks[i].numCells}

\* number of cells a block shares with the window [startId, startId + numCells)
Overlap(b, startId, numCells) ==
  Max(0, Min(b.startId + b.numCells, startId + numCells) - Max(b.startId, startId))

\* the logical cell the insertion cursor of type t stands on
CursorCell(t) ==
  LET c == CellInsertionIterators[t] IN
  IF c.pIt \in 1 .. Len(Info[t]) THEN Info[t][c.pIt].startId + c.numCellsInserted
  ELSE IF c.pIt = 0 THEN 0
  ELSE TotalCells(Info[t])

\* C1: for every cell type the first block starts at 0, every block has at
\* least one cell, block i+1 starts where block i ends, and the blocks'
\* numCells add up to the number of RegisterCell calls made for the type.
C1_BlocksContiguous ==
  \A t \in RegTypes :
    LET b == Info[t] IN
    /\ Len(b) > 0 => b[1].startId = 0
    /\ \A i \in 1 .. Len(b) : b[i].numCells >= 1
    /\ \A i \in 1 .. Len(b) - 1 :
         /\ b[i + 1].startId = b[i].startId + b[i].numCells
         /\ b[i + 1].startId > b[i].startId
    /\ TotalCells(b) = Len(regLog[t])

C1_Witness ==
  /\ Len(Info["SHELL"]) = 2
  /\ Info["SHELL"][1].numCells = 2
  /\ Info["SHELL"][2].startId = 2

\* C2: GetMemorySizesForPart returns, for any (cell type, material), the
\* number of RegisterCell calls made with that pair and the sum of their
\* point counts; (0, 0) when the pair was never registered.
C2_SizeOfCountsRegistrations ==
  result.op = "GetMemorySizesForPart" =>
    LET ks == RegisteredWith(result.type, result.matId) IN
    /\ result.numCells = Cardinality(ks)
    /\ result.cellArrayLength = SumNpts(regLog[result.type], ks)

\* the material owns two separate blocks of the type
C2_Witness ==
  /\ result.op = "GetMemorySizesForPart"
  /\ result.numCells = 2
  /\ result.cellArrayLength = 2
  /\ Len(Info[result.type]) = 3

\* C3: the k-th InsertCell of a type goes to the part in the slot of the
\* material of the k-th RegisterCell of that type, to no part when that slot
\* is empty, and each call moves the cursor on by exactly one cell.
C3_InsertFollowsRegistration ==
  \A t \in RegTypes :
    /\ \A k \in 1 .. Len(insertLog[t]) :
         insertLog[t][k].part =
           (IF Parts[regLog[t][k].matId] THEN regLog[t][k].matId ELSE NULL)
    /\ phase = "insert" => CursorCell(t) = Len(insertLog[t])

\* cells were forwarded to a part and skipped for a disabled part
C3_Witness ==
  /\ Len(insertLog["SHELL"]) = 3
  /\ insertLog["SHELL"][1].part = NULL
  /\ insertLog["SHELL"][2].part # NULL
  /\ insertLog["SHELL"][3].part = NULL

\* C4: the k-th InsertCell of a type reads the block that holds cell k-1, a
\* block of the list; before the last registered cell is inserted the cursor
\* stands on a block, after it the cursor is at the end of the list.
C4_CursorVisitsBlocksInOrder ==
  \A t \in RegTypes :
    /\ \A k \in 1 .. Len(insertLog[t]) :
         /\ insertLog[t][k].block \in 1 .. Len(Info[t])
         /\ BlockHolding(Info[t], k - 1) = {insertLog[t][k].block}
    /\ (phase = "insert" /\ Len(Info[t]) > 0) =>
         IF Len(insertLog[t]) = TotalCells(Info[t])
           THEN CellInsertionIterators[t].pIt = Len(Info[t]) + 1
           ELSE CellInsertionIterators[t].pIt \in 1 .. Len(Info[t])

C4_Witness ==
  /\ InsertionDone
  /\ Len(Info["SOLID"]) = 2
  /\ Info["SOLID"][1].numCells = 2
  /\ Len(insertLog["SOLID"]) = 3
  /\ CellInsertionIterators["SOLID"].pIt = 3

\* C5: FillCellArray over a window inside the registered cells calls
\* ReadCellProperties on live-part blocks in block order, each time with the
\* number of cells the block shares with the window, once for every
\* live-part block that shares cells with it, and the buffer position ends
\* at numCells * numPropertiesInCell.
C5_FillDeliversOverlap ==
  result.op = "FillCellArray" =>
    LET blocks == Info[result.type]
        calls == result.calls IN
    /\ \A i \in 1 .. Len(calls) :
         /\ calls[i].block \in 1 .. Len(blocks)
         /\ calls[i].part = blocks[calls[i].block].part
         /\ calls[i].part # NULL
         /\ calls[i].count = Overlap(blocks[calls[i].block], result.startId,
                                     result.numCells)
    /\ \A i \in 1 .. Len(calls) - 1 : calls[i].block < calls[i + 1].block
    /\ \A j \in 1 .. Len(blocks) :
         (blocks[j].part # NULL /\ Overlap(blocks[j], result.startId, result.numCells) > 0)
           => \E i \in 1 .. Len(calls) : calls[i].block = j
    /\ result.loc = result.numCells * result.comps

\* a window that starts inside the first block, crosses a disabled block and
\* ends in a third one
C5_Witness ==
  /\ result.op = "FillCellArray"
  /\ result.startId = 1
  /\ result.numCells = 2
  /\ Len(Info[result.type]) = 3
  /\ Info[result.type][2].part = NULL
  /\ Len(result.calls) >= 1
  /\ result.calls[Len(result.calls)].block = 3

\* C9: PartExists is true exactly for in-range indices whose slot holds a
\* part, false for every other index, and reads only slots of the array.
C9_ExistsOnlyInRange ==
  result.op = "PartExists" =>
    /\ result.value = (result.index \in Slots /\ Parts[result.index])
    /\ result.read \in Slots \cup {NULL}

\* a chunk [offset, offset + count) holds a point of the part's [min, max)
Intersects(p, c) ==
  /\ c.count > 0
  /\ minId[p] < c.offset + c.count
  /\ c.offset < maxId[p]

\* number of ReadPointBasedProperty calls a part got for a chunk offset
CallsFor(p, offset) ==
  Cardinality({i \in 1 .. Len(pt.calls) :
                 pt.calls[i].part = p /\ pt.calls[i].offset = offset})

\* C6: every collected part whose [min, max) range intersects a chunk that
\* was streamed has received that chunk exactly once.
C6_IntersectingPartGetsChunkOnce ==
  pt.pc \in {"loop", "done"} =>
    \A i \in 1 .. Len(pt.chunks) : \A p \in SeqRange(pt.parts) :
      Intersects(p, pt.chunks[i]) => CallsFor(p, pt.chunks[i].offset) = 1

\* C7: the span streamed starts at the least minimum id and ends at the
\* greatest maximum id over all collected parts.
C7_SpanIsOverallSpan ==
  pt.pc \in {"loop", "done"} =>
    /\ \A p \in SeqRange(pt.parts) : pt.minGlobalPoint <= minId[p]
    /\ \E p \in SeqRange(pt.parts) : pt.minGlobalPoint = minId[p]
    /\ \A p \in SeqRange(pt.parts) : pt.maxGlobalPoint >= maxId[p]
    /\ \E p \in SeqRange(pt.parts) : pt.maxGlobalPoint = maxId[p]

\* C8: in the chunk loop the working set only loses parts, and a part leaves
\* it only when its maximum id is strictly less than the start offset of the
\* chunk about to be processed.
C8_EvictOnlyBehindChunk ==
  [][pt.pc = "loop" =>
       /\ SeqRange(pt'.sortedParts) \subseteq SeqRange(pt.sortedParts)
       /\ \A p \in SeqRange(pt.sortedParts) \ SeqRange(pt'.sortedParts) :
            maxId[p] < pt.offset]_vars

\* a part has been evicted while another one is still being fed
C8_Witness ==
  /\ pt.pc = "loop"
  /\ pt.j >= 2
  /\ Len(pt.sortedParts) >= 1
  /\ Len(pt.sortedParts) < Len(pt.parts)

\* C10: SetCellDeadFlags visits every block in order, hands a live part the
\* slice at offset startId of length numCells, hands nothing for a block
\* without part, and ends with the offset at the sum of all numCells.
C10_DeadFlagsFollowBlocks ==
  (result.op = "SetCellDeadFlags" /\ result.death) =>
    LET blocks == Info[result.type]
        calls == result.calls
        live == {j \in 1 .. Len(blocks) : blocks[j].part # NULL} IN
    /\ {calls[i].block : i \in 1 .. Len(calls)} = live
    /\ Len(calls) = Cardinality(live)
    /\ \A i \in 1 .. Len(calls) - 1 : calls[i].block < calls[i + 1].block
    /\ \A i \in 1 .. Len(calls) :
         /\ calls[i].part = blocks[calls[i].block].part
         /\ calls[i].dead = blocks[calls[i].block].startId
         /\ calls[i].count = blocks[calls[i].block].numCells
    /\ result.dead = TotalCells(blocks)
    /\ result.dead = Len(regLog[result.type])
    /\ result.CellIterator = Len(blocks) + 1

\* a live block behind a block without part
C10_Witness ==
  /\ result.op = "SetCellDeadFlags"
  /\ result.death
  /\ Len(Info[result.type]) = 2
  /\ Info[result.type][1].part = NULL
  /\ Info[result.type][1].numCells = 2
  /\ Len(result.calls) = 1
  /\ result.calls[1].dead = 2

\* the streaming walks of the last call: FillCellArray makes one, and
\* ReadCellUserIds one per chunk, with one component per cell
FillWalks ==
  IF result.op = "FillCellArray"
    THEN {[startId |-> result.startId, numCells |-> result.numCells,
           comps |-> result.comps, first |-> result.first,
           calls |-> result.calls]}
    ELSE IF result.op = "ReadCellUserIds"
      THEN {[startId |-> c.startId, numCells |-> c.numCells, comps |-> 1,
             first |-> c.first, calls |-> c.calls] :
            c \in {result.chunks[i] : i \in 1 .. Len(result.chunks)}}
      ELSE {}

\* C11: in FillCellArray and FillCellUserIdArray the buffer position handed
\* to a part for a block is (max(block.startId, startId) - startId) times
\* the components per cell (one for user ids), whatever blocks without a
\* part were passed before
C11_BufferPositionIsWindowOffset ==
  \A w \in FillWalks : \A i \in 1 .. Len(w.calls) :
    w.calls[i].loc =
      (Max(Info[result.type][w.calls[i].block].startId, w.startId) - w.startId)
        * w.comps

\* user ids streamed in one chunk over three blocks, the middle one without
\* a part: the third block's part reads from position 2
C11_Witness ==
  /\ result.op = "ReadCellUserIds"
  /\ result.status
  /\ Len(result.chunks) = 1
  /\ Len(Info[result.type]) = 3
  /\ Info[result.type][2].part = NULL
  /\ \E i \in 1 .. Len(result.chunks[1].calls) :
       /\ result.chunks[1].calls[i].block = 3
       /\ result.chunks[1].calls[i].loc = 2

\* the InsertCell calls, as <<type, position>>, that were forwarded to the
\* part of slot s as AddCell
AddCellCalls(s) ==
  {<<t, k>> \in RegTypes \X (1 .. MaxCells) :
     k <= Len(insertLog[t]) /\ insertLog[t][k].part = s}

\* the connectivity words (point ids) of a set of InsertCell calls
RECURSIVE ConnectivityWords(_)
ConnectivityWords(cs) ==
  IF cs = {} THEN 0
  ELSE LET c == CHOOSE x \in cs : TRUE IN
       insertLog[c[1]][c[2]].npts + ConnectivityWords(cs \ {c})

\* every cell of a material that has a part was registered under the cell
\* type of that part
RegisteredUnderPartType ==
  \A t \in RegTypes : \A k \in 1 .. Len(regLog[t]) :
    Parts[regLog[t][k].matId] => partType[regLog[t][k].matId] = t

\* once AllocateParts has run, a slot that held a part then has exactly one
\* AllocateCellMemory call and an empty slot has none
AllocatedOnce ==
  phase # "register" =>
    \A s \in Slots :
      /\ Len(allocated[s]) <= 1
      /\ (Parts[s] \/ (result.op = "FinalizeTopology" /\ result.before[s]))
           <=> Len(allocated[s]) = 1

\* C12 (as stated): every part is allocated exactly once, and after a
\* complete insertion pass, for every registration sequence, the AddCell
\* calls a part got equal the numCells it was allocated and the connectivity
\* words it got equal the cellArrayLength it was allocated
C12_AllocationMatchesInsertion ==
  /\ AllocatedOnce
  /\ InsertionDone =>
       \A s \in Slots : allocated[s] # <<>> =>
         allocated[s][1] = <<Cardinality(AddCellCalls(s)),
                             ConnectivityWords(AddCellCalls(s))>>

\* C12 (amended): the same, for the registration sequences that register
\* every cell under the cell type of its material's part
C12_AllocationMatchesTypedInsertion ==
  /\ AllocatedOnce
  /\ (InsertionDone /\ RegisteredUnderPartType) =>
       \A s \in Slots : allocated[s] # <<>> =>
         allocated[s][1] = <<Cardinality(AddCellCalls(s)),
                             ConnectivityWords(AddCellCalls(s))>>

\* the SHELL part of slot 0 owns two blocks around a block of slot 2: it was
\* allocated two cells with two connectivity words and got as many
C12_Witness ==
  /\ InsertionDone
  /\ RegisteredUnderPartType
  /\ Len(Info["SHELL"]) = 3
  /\ Info["SHELL"][1].part = 0
  /\ Info["SHELL"][3].part = 0
  /\ allocated[0] = <<<<2, 2>>>>
  /\ Cardinality(AddCellCalls(0)) = 2

\* C13: after FinalizeTopology a slot holds a part exactly when it held one
\* before and that part was handed at least one cell; an emptied slot does
\* not exist any more, every surviving part got BuildToplogy exactly once and
\* no other did, and no block refers to a part that was destroyed
C13_FinalizePrunesEmptyParts ==
  result.op = "FinalizeTopology" =>
    /\ \A s \in Slots :
         /\ Parts[s] <=> (result.before[s] /\ AddCellCalls(s) # {})
         /\ ~Parts[s] => ~PartExists(Parts, s, FALSE).value
         /\ Cardinality({i \in 1 .. Len(result.built) : result.built[i] = s})
              = IF Parts[s] THEN 1 ELSE 0
    /\ \A t \in CellTypes : \A i \in 1 .. Len(Info[t]) :
         Info[t][i].part # NULL => Parts[Info[t][i].part]

\* slot 0 held a part without cells and was emptied, slot 1 keeps its part
\* with cells, and a block of the disabled material 2 is in the index
C13_Witness ==
  /\ result.op = "FinalizeTopology"
  /\ result.before[0] /\ ~Parts[0]
  /\ Parts[1] /\ result.built = <<1>>
  /\ ~result.before[2]
  /\ \E t \in RegTypes : \E i \in 1 .. Len(Info[t]) : Info[t][i].partId = 2

\* the slots that hold a part of cell type t
SlotsOfType(t) == {s \in Slots : Parts[s] /\ partType[s] = t}

\* sequence q holds slots of S only, in strictly ascending order
AscendingIn(q, S) ==
  /\ \A i \in 1 .. Len(q) : q[i] \in S
  /\ \A i \in 1 .. Len(q) - 1 : q[i] < q[i + 1]

\* sequence q is an ascending run of S from its least element: no slot of S
\* below the last one of q is left out
PrefixOf(q, S) ==
  /\ AscendingIn(q, S)
  /\ \A s \in S : (Len(q) > 0 /\ s < q[Len(q)]) => \E i \in 1 .. Len(q) : q[i] = s

\* C14: a walk begun by InitPartIteration(type) and continued by GetNextPart
\* alone is handed the slots that hold a part of the type, each once, in
\* ascending slot order; the call that returns false hands out NULL, and it
\* comes when all of them were handed out (at once when there is none)
C14_WalkYieldsPartsOfType ==
  \A w \in 1 .. Len(walks) :
    walks[w].alone =>
      /\ PrefixOf(walks[w].got, SlotsOfType(walks[w].type))
      /\ ~walks[w].more =>
           /\ walks[w].last = NULL
           /\ {walks[w].got[i] : i \in 1 .. Len(walks[w].got)}
                = SlotsOfType(walks[w].type)

\* a finished walk over the SOLID parts got slots 1 and 2 and skipped slot 0,
\* which holds a SHELL part
C14_Witness ==
  \E w \in 1 .. Len(walks) :
    /\ walks[w].alone /\ ~walks[w].more
    /\ walks[w].type = "SOLID"
    /\ walks[w].got = <<1, 2>>
    /\ Parts[0]

\* C15 (as stated): walks are independent: whatever other walks are begun
\* or continued meanwhile, a walk is handed the parts of its own type, in
\* order, and all of them by the time it ends
C15_WalksIndependent ==
  \A w \in 1 .. Len(walks) :
    /\ PrefixOf(walks[w].got, SlotsOfType(walks[w].type))
    /\ ~walks[w].more =>
         {walks[w].got[i] : i \in 1 .. Len(walks[w].got)}
           = SlotsOfType(walks[w].type)

\* C15 (amended): the walks share one cursor, which InitPartIteration
\* restarts: the parts handed out since a walk was begun, to whichever
\* caller, are the leading parts of that walk's type in slot order, until the
\* next walk is begun
C15_WalksShareCursor ==
  \A w \in 1 .. Len(walks) :
    PrefixOf(walks[w].served, SlotsOfType(walks[w].type))

\* a walk over the SHELL parts had got slot 0 when a walk over the SOLID
\* parts was begun; its next call was handed the SOLID part of slot 1
C15_Witness ==
  /\ Len(walks) = 2
  /\ walks[1].type = "SHELL" /\ walks[2].type = "SOLID"
  /\ walks[1].got = <<0, 1>>
  /\ walks[2].served = <<1>>
  /\ partType[1] = "SOLID"

\* C16: the blocks of a cell type are maximal runs: adjacent blocks differ in
\* partId, and there are as many blocks as the registration order of the type
\* has cells whose material differs from the cell before, counting the first
C16_BlocksAreMaximalRuns ==
  \A t \in RegTypes :
    /\ \A i \in 1 .. Len(Info[t]) - 1 : Info[t][i].partId # Info[t][i + 1].partId
    /\ Len(Info[t]) =
         IF regLog[t] = <<>>
           THEN 0
           ELSE 1 + Cardinality({k \in 2 .. Len(regLog[t]) :
                                   regLog[t][k].matId # regLog[t][k - 1].matId})

\* materials 0, 0, 1 registered for SHELL make two blocks
C16_Witness ==
  /\ Len(regLog["SHELL"]) = 3
  /\ regLog["SHELL"][1].matId = 0
  /\ regLog["SHELL"][2].matId = 0
  /\ regLog["SHELL"][3].matId = 1
  /\ Len(Info["SHELL"]) = 2
  /\ Info["SHELL"][1].numCells = 2

\* C17: a RegisterCell call with a material index outside the slots and an
\* InsertCell call on an exhausted cursor are rejected: the call leaves the
\* index, the cursors and the cells forwarded to the parts as they were and
\* reads neither outside the slot array nor outside the block list
C17_MisuseRejected ==
  [][(phase # "undefined" /\ phase' = "undefined") =>
       /\ Info' = Info
       /\ CellInsertionIterators' = CellInsertionIterators
       /\ insertLog' = insertLog
       /\ result'.slotRead = NULL
       /\ result'.blockRead = NULL]_vars

\* the user ids one FillCellUserIdArray call hands out, as [part, cell]: word
\* loc + i of the chunk that starts at startId is the id of cell
\* startId + loc + i
RECURSIVE IdsOfCalls(_, _)
IdsOfCalls(startId, calls) ==
  IF calls = <<>> THEN <<>>
  ELSE LET c == Head(calls) IN
       [i \in 1 .. c.count |-> [part |-> c.part, cell |-> startId + c.loc + i - 1]]
       \o IdsOfCalls(startId, Tail(calls))

RECURSIVE IdsOfChunks(_)
IdsOfChunks(chunks) ==
  IF chunks = <<>> THEN <<>>
  ELSE IdsOfCalls(Head(chunks).startId, Head(chunks).calls)
       \o IdsOfChunks(Tail(chunks))

\* the cells c .. n-1 of the blocks that belong to a part, in ascending order
RECURSIVE OwnedCells(_, _, _)
OwnedCells(blocks, c, n) ==
  IF c >= n THEN <<>>
  ELSE LET b == blocks[CHOOSE i \in BlockHolding(blocks, c) : TRUE] IN
       (IF b.part # NULL THEN <<[part |-> b.part, cell |-> c]>> ELSE <<>>)
       \o OwnedCells(blocks, c + 1, n)

\* C18: ReadCellUserIds with status on, whatever the chunk sizes: the ids
\* handed to the parts are, in this order, the ids of the cells of the window
\* that belong to a part, each cell's id once and to its own part, which is
\* what streaming the window in a single call hands out
C18_ChunkedUserIdsReachOwners ==
  (result.op = "ReadCellUserIds" /\ result.status) =>
    IdsOfChunks(result.chunks)
      = OwnedCells(Info[result.type], 0, result.numCells)

\* three cells in two blocks with parts, read in chunks of 1 and 2: the
\* second chunk starts inside the first block and runs into the second
C18_Witness ==
  /\ result.op = "ReadCellUserIds"
  /\ result.status
  /\ Len(result.chunks) = 2
  /\ result.chunks[2].startId = 1
  /\ Len(Info[result.type]) = 2
  /\ Info[result.type][1].numCells = 2
  /\ Len(result.chunks[2].calls) = 2
  /\ result.chunks[2].calls[1].block = 1
  /\ result.chunks[2].calls[1].count = 1

\* C19: InitCellIteration(type, pos) with pos inside the registered cells
\* leaves the cursor on the block that holds cell pos, also when pos is the
\* first cell of a block
C19_SeekLandsOnHoldingBlock ==
  \A w \in FillWalks :
    w.startId < TotalCells(Info[result.type]) =>
      w.first \in BlockHolding(Info[result.type], w.startId)

\* C20: in the cell-property and the user-id walk over a window of at least
\* one cell no part is handed a span of zero cells, and user ids are enabled
\* only for a part with a cell in the window: the walk stops at the first
\* block it visits whose clipped span is empty
C20_NoEmptySpanHandedOut ==
  \A w \in FillWalks :
    w.numCells > 0 =>
      \A i \in 1 .. Len(w.calls) :
        /\ w.calls[i].count > 0
        /\ Overlap(Info[result.type][w.calls[i].block], w.startId, w.numCells) > 0

\* the parts the point-property streamer can collect
PointParts == {s \in Slots : Parts[s]}

\* (min1, max1) is lexicographically less than (min2, max2)
LexLess(p1, p2) ==
  \/ minId[p1] < minId[p2]
  \/ (minId[p1] = minId[p2] /\ maxId[p1] < maxId[p2])

\* C21: sortPartsOnGlobalIds(p1, p2) is true exactly when (min1, max1) is
\* lexicographically less than (min2, max2), hence never true both ways, and
\* the working set the sort leaves is in non-decreasing order of minimum id
C21_ComparatorIsLexicographic ==
  /\ \A p1 \in PointParts : \A p2 \in PointParts :
       /\ sortPartsOnGlobalIds(p1, p2) <=> LexLess(p1, p2)
       /\ ~(sortPartsOnGlobalIds(p1, p2) /\ sortPartsOnGlobalIds(p2, p1))
  /\ (pt.pc = "loop" /\ pt.j = 0) =>
       \A i \in 1 .. Len(pt.sortedParts) - 1 :
         minId[pt.sortedParts[i]] <= minId[pt.sortedParts[i + 1]]

\* C22: for a type with 0 <= MinIds <= NumberOfCells and MaxIds <= NumberOfCells,
\* GetPartReadInfo returns three non-negative counts adding up to NumberOfCells
\* (no cells and everything skipped at the start when MaxIds <= MinIds), and
\* ReadCellUserIds consumes exactly NumberOfCells words with status on or off;
\* with status off no part receives a user id
C22_ReadInfoCoversSection ==
  (/\ result.op = "ReadCellUserIds"
   /\ 0 <= result.MinIds
   /\ result.MinIds <= result.NumberOfCells
   /\ result.MaxIds <= result.NumberOfCells) =>
    /\ result.info.numberOfCells >= 0
    /\ result.info.numCellsToSkipStart >= 0
    /\ result.info.numCellsToSkipEnd >= 0
    /\ result.info.numberOfCells + result.info.numCellsToSkipStart
       + result.info.numCellsToSkipEnd = result.NumberOfCells
    /\ result.MaxIds <= result.MinIds =>
         /\ result.info.numberOfCells = 0
         /\ result.info.numCellsToSkipStart = result.NumberOfCells
         /\ result.info.numCellsToSkipEnd = 0
    /\ result.words = result.NumberOfCells
    /\ ~result.status => IdsOfChunks(result.chunks) = <<>>

\* a window with words skipped on both sides was read in two chunks, and the
\* section of a type without cells was passed over with status on
C22_Witness ==
  /\ result.op = "ReadCellUserIds"
  /\ result.status
  /\ result.info.numCellsToSkipStart > 0
  /\ result.info.numCellsToSkipEnd > 0
  /\ Len(result.chunks) = 2
  /\ IdsOfChunks(result.chunks) # <<>>

\* the section of a type without cells was passed over
C22_EmptyWindowReached ==
  /\ result.op = "ReadCellUserIds"
  /\ result.MaxIds <= result.MinIds
  /\ result.NumberOfCells > 0

\* C23: every ReadPointProperty call consumes exactly numTuples * numComps
\* words (numTuples is MaxPoint here), whatever parts are enabled and also
\* when no part of a relevant cell type exists; an array that was not
\* requested is skipped whole
C23_AllTupleWordsConsumed ==
  pt.pc \in {"skipped", "done", "undefined"} =>
    pt.words = MaxPoint * pt.numComps

\* with at least one collected part the words do add up
C23_WordsWithParts ==
  pt.pc \in {"skipped", "done"} => pt.words = MaxPoint * pt.numComps

\* the blocks of a type whose registrations are made with no other type's
\* registrations in between
RECURSIVE BlocksOfLog(_, _)
BlocksOfLog(log, blocks) ==
  IF log = <<>> THEN blocks
  ELSE BlocksOfLog(Tail(log),
                   RegisterCellBlocks(blocks, Parts, Head(log).matId, Head(log).npts))

\* what one step may do to the index space of type t
C24_Frame(t) ==
  /\ regLog'[t] = regLog[t] => Info'[t] = Info[t]
  /\ regLog'[t] # regLog[t] =>
       /\ Len(Info'[t]) \in {Len(Info[t]), Len(Info[t]) + 1}
       /\ Len(Info'[t]) >= 1
       /\ \A i \in 1 .. Len(Info'[t]) - 1 : Info'[t][i] = Info[t][i]
       /\ \A u \in CellTypes \ {t} : Info'[u] = Info[u]
       /\ CellInsertionIterators' = CellInsertionIterators
  /\ (phase = "insert" /\ insertLog'[t] = insertLog[t]) =>
       CellInsertionIterators'[t] = CellInsertionIterators[t]
  /\ insertLog'[t] # insertLog[t] =>
       /\ Info' = Info
       /\ \A u \in CellTypes \ {t} :
            CellInsertionIterators'[u] = CellInsertionIterators[u]

\* C24: a registration for type T changes only T's block list, and there only
\* the last block or by appending one; an insertion for T changes only T's
\* cursor; so each type's blocks are those of registering that type alone,
\* however the registrations of the types interleave
C24_TypesAreIndependent ==
  /\ [](\A t \in CellTypes : Info[t] = BlocksOfLog(regLog[t], <<>>))
  /\ [][\A t \in CellTypes : C24_Frame(t)]_vars

\* both types were registered, SHELL into two blocks, and both cursors moved
C24_Witness ==
  /\ phase = "insert"
  /\ Len(Info["SHELL"]) = 2
  /\ Len(Info["SOLID"]) = 1
  /\ insertLog["SHELL"] # <<>>
  /\ insertLog["SOLID"] # <<>>
  /\ CellInsertionIterators["SHELL"] # CellInsertionIterators["SOLID"]

====
